---- MODULE Spec2Model ----
(***************************************************************************)
(* Model of the Study & Wellness Tracker (src/main.py).                    *)
(*                                                                         *)
(* The program is a Streamlit script: every user interaction re-executes   *)
(* the whole script from the first line.  One execution ("run") reads the  *)
(* CSV file, then goes through the four tabs in order: the daily form      *)
(* (append + rewrite of the file when the form was submitted), the         *)
(* analysis, the plan generator and the PDF export.  Each browser session  *)
(* executes its runs in a thread of its own; the CSV file is the only      *)
(* state shared by the sessions and it is accessed without locking.        *)
(*                                                                         *)
(* Hours are counted in tenths of an hour (5.9 h = 59), which is the       *)
(* precision of the inputs used here.  A CSV cell is modelled by the text  *)
(* pandas writes: a float cell is its integer part and its fraction digit, *)
(* an integer cell its digits, a date cell the text YYYY-MM-DD, held as    *)
(* <<year, month, day>>.  One call of to_csv is one atomic step.           *)
(***************************************************************************)
EXTENDS Integers, Sequences, FiniteSets, TLC

\* ------------------------------------------------------------------ bounds
Sessions == {1, 2}
MaxSubmits == 2
MaxDay == 1
MaxDaysLeft == 4

\* --------------------------------------------------------------- constants
FiveCols == <<"date", "study_hours", "stress_level", "sleep_hours", "exercise_min">>
RiskCol == "burnout_risk"
ImportedNames ==
    {"st", "pd", "np", "os", "random", "datetime", "LinearRegression",
     "DecisionTreeClassifier", "train_test_split", "accuracy_score", "px",
     "pipeline", "canvas", "letter"}
ProbeHours == 100
NaN == -1

\* widget values of the daily form (tenths of hours, level, tenths, minutes)
FormDefaults == [study_hours |-> 0, stress_level |-> 1, sleep_hours |-> 0, exercise_min |-> 0]
FormInputs ==
    { [study_hours |-> 25, stress_level |-> 8, sleep_hours |-> 60, exercise_min |-> 5],
      [study_hours |-> 80, stress_level |-> 7, sleep_hours |-> 50, exercise_min |-> 0],
      [study_hours |-> 45, stress_level |-> 8, sleep_hours |-> 59, exercise_min |-> 10] }
Interactions == {"view", "submit", "plan", "pdf"}
FormInteractions == {"view", "submit"}
DaysLeftInputs == (1..MaxDaysLeft) \cup {20}

VARIABLES file, today, pc, act, form, df,
          stressOut, burnoutOut, planOut, pdfOut, err,
          submitted, lastWrite

vars == <<file, today, pc, act, form, df,
          stressOut, burnoutOut, planOut, pdfOut, err,
          submitted, lastWrite>>

\* ------------------------------------------------------------------- dates
BaseDate == <<2024, 2, 28>>

IsLeap(y) == (y % 4 = 0 /\ y % 100 # 0) \/ y % 400 = 0

DaysInMonth(y, m) ==
    IF m = 2 THEN (IF IsLeap(y) THEN 29 ELSE 28)
    ELSE IF m \in {4, 6, 9, 11} THEN 30 ELSE 31

NextDate(d) ==
    IF d[3] < DaysInMonth(d[1], d[2]) THEN <<d[1], d[2], d[3] + 1>>
    ELSE IF d[2] < 12 THEN <<d[1], d[2] + 1, 1>>
    ELSE <<d[1] + 1, 1, 1>>

RECURSIVE Strftime(_)
Strftime(n) == IF n = 0 THEN BaseDate ELSE NextDate(Strftime(n - 1))

ToDatetime(s) == CHOOSE n \in 0..(MaxDay + 1) : Strftime(n) = s

\* --------------------------------------------------------------- CSV cells
\* repr of a float cut to its integer part
FormatFloatTrunc(t) == [int |-> t \div 10, frac |-> 0]

FormatFloat(t) == [int |-> t \div 10, frac |-> t % 10]
ParseFloat(c) == c.int * 10 + c.frac
FormatInt(n) == [digits |-> n]
ParseInt(c) == c.digits

FormatRow(r) ==
    [date |-> r.date,
     study_hours |-> FormatFloat(r.study_hours),
     stress_level |-> FormatInt(r.stress_level),
     sleep_hours |-> FormatFloat(r.sleep_hours),
     exercise_min |-> FormatInt(r.exercise_min)]

ParseRow(c) ==
    [date |-> c.date,
     study_hours |-> ParseFloat(c.study_hours),
     stress_level |-> ParseInt(c.stress_level),
     sleep_hours |-> ParseFloat(c.sleep_hours),
     exercise_min |-> ParseInt(c.exercise_min)]

\* ------------------------------------------------------------------ tables
Absent == [exists |-> FALSE, cols |-> <<>>, rows |-> <<>>, risk |-> <<>>]

\* pd.DataFrame() without the columns argument
EmptyFrameNoCols == [cols |-> <<>>, rows |-> <<>>, risk |-> <<>>, dateType |-> "str"]

EmptyFrame == [cols |-> FiveCols, rows |-> <<>>, risk |-> <<>>, dateType |-> "str"]

HasCol(t, c) == \E i \in 1..Len(t.cols) : t.cols[i] = c

ToCsv(t) ==
    [exists |-> TRUE,
     cols |-> t.cols,
     rows |-> [i \in 1..Len(t.rows) |-> FormatRow(t.rows[i])],
     risk |-> t.risk]

ReadCsv(f) ==
    [cols |-> f.cols,
     rows |-> [i \in 1..Len(f.rows) |-> ParseRow(f.rows[i])],
     risk |-> f.risk,
     dateType |-> "str"]

NumRows(f) == Len(f.rows)

\* --------------------------------------------------------- daily form (tab1)
NewData(s) ==
    [date |-> Strftime(today),
     study_hours |-> form[s].study_hours,
     stress_level |-> form[s].stress_level,
     sleep_hours |-> form[s].sleep_hours,
     exercise_min |-> form[s].exercise_min]

\* the new row replaces the table instead of extending it
ConcatReplace(t, r) == [t EXCEPT !.rows = <<r>>, !.risk = <<>>]

\* pd.concat([df, new_data], ignore_index=True): the new row goes last; a
\* column the new row lacks is filled with NaN
Concat(t, r) ==
    [t EXCEPT !.rows = Append(t.rows, r),
              !.risk = IF HasCol(t, RiskCol) THEN Append(t.risk, NaN) ELSE t.risk]

\* ------------------------------------------------------------ analysis (tab2)
RECURSIVE SumSeq(_)
SumSeq(q) == IF q = <<>> THEN 0 ELSE Head(q) + SumSeq(Tail(q))

\* off by one: two rows are not enough
AnalysisSkippedAtTwo(t) == Len(t.rows) <= 2

AnalysisSkipped(t) == Len(t.rows) < 2

\* LinearRegression().fit(study_hours, stress_level).predict(probe), as the
\* exact least-squares value <<numerator, denominator>>; with no variance in
\* study_hours the minimum-norm solution has slope 0
PredictStress(t, probe) ==
    LET n == Len(t.rows)
        xs == [i \in 1..n |-> t.rows[i].study_hours]
        ys == [i \in 1..n |-> t.rows[i].stress_level]
        Sx == SumSeq(xs)
        Sy == SumSeq(ys)
        Sxx == SumSeq([i \in 1..n |-> xs[i] * xs[i]])
        Sxy == SumSeq([i \in 1..n |-> xs[i] * ys[i]])
        D == n * Sxx - Sx * Sx
    IN IF D = 0 THEN <<Sy, n>>
       ELSE <<Sy * D + (n * Sxy - Sx * Sy) * (probe * n - Sx), n * D>>

\* sleep of exactly 6 hours counted as short
BurnoutLabelInclusive(sleep, stress) == IF sleep <= 60 /\ stress > 7 THEN 1 ELSE 0

BurnoutLabel(sleep, stress) == IF sleep < 60 /\ stress > 7 THEN 1 ELSE 0

BurnoutLabels(t) ==
    [i \in 1..Len(t.rows) |-> BurnoutLabel(t.rows[i].sleep_hours, t.rows[i].stress_level)]

WithRisk(t) ==
    [t EXCEPT !.cols = IF HasCol(t, RiskCol) THEN t.cols ELSE Append(t.cols, RiskCol),
              !.risk = BurnoutLabels(t)]

\* a single class accepted
HasVarietyOneClass(labels) == Cardinality({labels[i] : i \in 1..Len(labels)}) >= 1

HasVariety(labels) == Cardinality({labels[i] : i \in 1..Len(labels)}) > 1

\* DecisionTreeClassifier().fit(X_tree, y_tree).predict(today's triple): an
\* unpruned tree reproduces the label of every training row (the label is a
\* function of the features); on any other point its answer depends on the
\* splits it happened to choose
TreePredictions(t, sleep, stress, study) ==
    LET same == {i \in 1..Len(t.rows) :
                    /\ t.rows[i].sleep_hours = sleep
                    /\ t.rows[i].stress_level = stress
                    /\ t.rows[i].study_hours = study}
    IN IF same # {} THEN {t.risk[i] : i \in same} ELSE {0, 1}

\* ------------------------------------------------------ plan generator (tab3)
Phases(d) == d \div 4

PlanRanges(d) ==
    << <<1, Phases(d)>>,
       <<Phases(d) + 1, 2 * Phases(d)>>,
       <<2 * Phases(d) + 1, 3 * Phases(d)>>,
       <<3 * Phases(d) + 1, d>> >>

RECURSIVE MinSeq(_)
MinSeq(q) == IF Len(q) = 1 THEN Head(q)
             ELSE LET m == MinSeq(Tail(q)) IN IF Head(q) < m THEN Head(q) ELSE m

\* (today - earliest date).days / days_left * 100, as <<numerator, denominator>>
Progress(t, d) ==
    <<(today - MinSeq([i \in 1..Len(t.rows) |-> ToDatetime(t.rows[i].date)])) * 100, d>>

\* ------------------------------------------------- the table a submit writes
\* the file is read again just before the append
SubmitTableMerged(s) == Concat(ReadCsv(file), NewData(s))

\* the labels are added before the table is saved
SubmitTableLabelled(s) == Concat(WithRisk(df[s]), NewData(s))

\* lines 54-61: the table loaded by this run, plus today's row
SubmitTable(s) == Concat(df[s], NewData(s))

\* ------------------------------------------------------------- display state
NoStress == [kind |-> "none", n |-> 0, value |-> <<0, 1>>]
NoBurnout == [kind |-> "none", risk |-> 0]
NoPlan == [shown |-> FALSE, days |-> 0, ranges |-> <<>>, progress |-> <<0, 1>>, note |-> "none"]
NoPdf == [drawn |-> <<>>, count |-> 0, saved |-> FALSE, offered |-> FALSE]

Init ==
    /\ file = Absent
    /\ today = 0
    /\ pc = [s \in Sessions |-> "idle"]
    /\ act = [s \in Sessions |-> "view"]
    /\ form = [s \in Sessions |-> FormDefaults]
    /\ df = [s \in Sessions |-> EmptyFrame]
    /\ stressOut = [s \in Sessions |-> NoStress]
    /\ burnoutOut = [s \in Sessions |-> NoBurnout]
    /\ planOut = [s \in Sessions |-> NoPlan]
    /\ pdfOut = [s \in Sessions |-> NoPdf]
    /\ err = [s \in Sessions |-> "none"]
    /\ submitted = <<>>
    /\ lastWrite = 0

outputs == <<stressOut, burnoutOut, planOut, pdfOut, err>>
ghosts == <<submitted, lastWrite>>

\* the table a run starts from (line 19)
LoadedTable(s) == ReadCsv(file)

\* A user interaction starts a run: the widgets take their new values and
\* the script reads the file (lines 18-19).  A missing
\* file raises FileNotFoundError, handled at lines 20-22.
Load(s, interactions) ==
    /\ pc[s] = "idle"
    /\ \E a \in interactions :
         /\ act' = [act EXCEPT ![s] = a]
         /\ IF a = "submit"
              THEN /\ Len(submitted) < MaxSubmits
                   /\ \E v \in FormInputs : form' = [form EXCEPT ![s] = v]
              ELSE form' = form
    /\ IF file.exists
         THEN /\ df' = [df EXCEPT ![s] = LoadedTable(s)]
              /\ pc' = [pc EXCEPT ![s] = "tab1"]
         ELSE /\ df' = [df EXCEPT ![s] = EmptyFrame]
              /\ pc' = [pc EXCEPT ![s] = "create"]
    /\ UNCHANGED <<file, today, outputs, ghosts>>

\* line 22: df.to_csv(DATA_FILE) in the except branch
CreateFile(s) ==
    /\ pc[s] = "create"
    /\ file' = ToCsv(df[s])
    /\ lastWrite' = 0
    /\ pc' = [pc EXCEPT ![s] = "tab1"]
    /\ UNCHANGED <<today, act, form, df, outputs, submitted>>

\* lines 45-63
DailyForm(s) ==
    /\ pc[s] = "tab1"
    /\ IF act[s] = "submit"
         THEN /\ df' = [df EXCEPT ![s] = SubmitTable(s)]
              /\ file' = ToCsv(SubmitTable(s))
              /\ submitted' = Append(submitted,
                     [session |-> s, base |-> df[s].rows, row |-> NewData(s)])
              /\ lastWrite' = Len(submitted) + 1
         ELSE UNCHANGED <<df, file, submitted, lastWrite>>
    /\ pc' = [pc EXCEPT ![s] = "tab2"]
    /\ UNCHANGED <<today, act, form, outputs>>

\* lines 65-91 (the two charts draw the table and change nothing)
Analysis(s) ==
    /\ pc[s] = "tab2"
    /\ IF AnalysisSkipped(df[s])
         THEN /\ stressOut' = [stressOut EXCEPT ![s] =
                     [kind |-> "warning", n |-> 0, value |-> <<0, 1>>]]
              /\ UNCHANGED <<df, burnoutOut>>
         ELSE /\ stressOut' = [stressOut EXCEPT ![s] =
                     [kind |-> "pred", n |-> Len(df[s].rows),
                      value |-> PredictStress(df[s], ProbeHours)]]
              /\ df' = [df EXCEPT ![s] = WithRisk(df[s])]
              /\ IF HasVariety(BurnoutLabels(df[s]))
                   THEN \E r \in TreePredictions(WithRisk(df[s]), form[s].sleep_hours,
                                       form[s].stress_level, form[s].study_hours) :
                          burnoutOut' = [burnoutOut EXCEPT ![s] = [kind |-> "risk", risk |-> r]]
                   ELSE UNCHANGED burnoutOut
    /\ pc' = [pc EXCEPT ![s] = "tab3"]
    /\ UNCHANGED <<file, today, act, form, planOut, pdfOut, err, ghosts>>

\* lines 93-122.  days_left is read nowhere else, so the value the widget
\* holds is an input of this step.  The tips appended to the plan are free
\* text of the text-generation model.  Subtracting a pandas Timestamp from
\* a datetime.date is not supported by every pandas release: the progress
\* is either displayed or the run ends with TypeError.
PlanGenerator(s) ==
    /\ pc[s] = "tab3"
    /\ IF act[s] = "plan"
         THEN \E d \in DaysLeftInputs :
              IF Len(df[s].rows) > 0
                THEN \/ /\ planOut' = [planOut EXCEPT ![s] =
                               [shown |-> TRUE, days |-> d, ranges |-> PlanRanges(d),
                                progress |-> Progress(df[s], d), note |-> "progress"]]
                        /\ err' = err
                        /\ pc' = [pc EXCEPT ![s] = "tab4"]
                     \/ /\ planOut' = [planOut EXCEPT ![s] =
                               [shown |-> TRUE, days |-> d, ranges |-> PlanRanges(d),
                                progress |-> <<0, 1>>, note |-> "none"]]
                        /\ err' = [err EXCEPT ![s] = "TypeError"]
                        /\ pc' = [pc EXCEPT ![s] = "done"]
                ELSE /\ planOut' = [planOut EXCEPT ![s] =
                            [shown |-> TRUE, days |-> d, ranges |-> PlanRanges(d),
                             progress |-> <<0, 1>>, note |-> "no data"]]
                     /\ err' = err
                     /\ pc' = [pc EXCEPT ![s] = "tab4"]
         ELSE /\ UNCHANGED <<planOut, err>>
              /\ pc' = [pc EXCEPT ![s] = "tab4"]
    /\ UNCHANGED <<file, today, act, form, df, stressOut, burnoutOut, pdfOut, ghosts>>

\* lines 124-141.  plt is used at line 133; a name the script never bound
\* raises NameError there, after the two drawString calls.  DataFrame.plot
\* raises TypeError on a table without numeric data (no rows).
ExportReport(s) ==
    /\ pc[s] = "tab4"
    /\ IF act[s] = "pdf"
         THEN IF "plt" \notin ImportedNames
                THEN /\ pdfOut' = [pdfOut EXCEPT ![s] =
                            [drawn |-> <<"title", "count">>, count |-> Len(df[s].rows),
                             saved |-> FALSE, offered |-> FALSE]]
                     /\ err' = [err EXCEPT ![s] = "NameError"]
                     /\ df' = df
                ELSE IF Len(df[s].rows) = 0
                THEN /\ pdfOut' = [pdfOut EXCEPT ![s] =
                            [drawn |-> <<"title", "count">>, count |-> Len(df[s].rows),
                             saved |-> FALSE, offered |-> FALSE]]
                     /\ err' = [err EXCEPT ![s] = "TypeError"]
                     /\ df' = [df EXCEPT ![s].dateType = "datetime"]
                ELSE /\ pdfOut' = [pdfOut EXCEPT ![s] =
                            [drawn |-> <<"title", "count", "chart">>, count |-> Len(df[s].rows),
                             saved |-> TRUE, offered |-> TRUE]]
                     /\ err' = err
                     /\ df' = [df EXCEPT ![s].dateType = "datetime"]
         ELSE UNCHANGED <<pdfOut, err, df>>
    /\ pc' = [pc EXCEPT ![s] = "done"]
    /\ UNCHANGED <<file, today, act, form, stressOut, burnoutOut, planOut, ghosts>>

\* The script has run to its end or stopped at an exception: its namespace
\* (df included) is discarded and the session waits for the next interaction.
EndRun(s) ==
    /\ pc[s] = "done"
    /\ pc' = [pc EXCEPT ![s] = "idle"]
    /\ act' = [act EXCEPT ![s] = "view"]
    /\ df' = [df EXCEPT ![s] = EmptyFrame]
    /\ stressOut' = [stressOut EXCEPT ![s] = NoStress]
    /\ burnoutOut' = [burnoutOut EXCEPT ![s] = NoBurnout]
    /\ planOut' = [planOut EXCEPT ![s] = NoPlan]
    /\ pdfOut' = [pdfOut EXCEPT ![s] = NoPdf]
    /\ err' = [err EXCEPT ![s] = "none"]
    /\ UNCHANGED <<file, today, form, ghosts>>

\* midnight passes: datetime.date.today() moves on
Tick ==
    /\ today < MaxDay
    /\ today' = today + 1
    /\ UNCHANGED <<file, pc, act, form, df, outputs, ghosts>>

\* Tabs 2-4 and the end of a run read and write only the run's own table
\* and display, so they commute with every step of another session.  The
\* two-session specification schedules them without interleaving; the
\* reachable contents of the file and of each session's display are the same.
LocalSteps == {"tab2", "tab3", "tab4", "done"}
Quiet(s) == \A t \in Sessions \ {s} : pc[t] \notin LocalSteps

\* two sessions share the file; they view the page and submit the form
Next ==
    \/ \E s \in Sessions : Quiet(s) /\ Load(s, FormInteractions)
    \/ \E s \in Sessions : Quiet(s) /\ CreateFile(s)
    \/ \E s \in Sessions : Quiet(s) /\ DailyForm(s)
    \/ \E s \in Sessions : Analysis(s)
    \/ \E s \in Sessions : PlanGenerator(s)
    \/ \E s \in Sessions : ExportReport(s)
    \/ \E s \in Sessions : EndRun(s)
    \/ Quiet(0) /\ Tick

Spec == Init /\ [][Next]_vars

\* one session only: the runs follow one another, with every interaction
NextSolo ==
    \/ Load(1, Interactions)
    \/ CreateFile(1)
    \/ DailyForm(1)
    \/ Analysis(1)
    \/ PlanGenerator(1)
    \/ ExportReport(1)
    \/ EndRun(1)
    \/ Tick

SpecSolo == Init /\ [][NextSolo]_vars

\* =================================================================== claims
SubmittedRows == [i \in 1..Len(submitted) |-> submitted[i].row]
SubmitStep(s) == pc[s] = "tab1" /\ act[s] = "submit" /\ pc'[s] = "tab2"
AfterAnalysis(s) == pc[s] \in {"tab3", "tab4", "done"}

\* C1: with one session, starting from an absent file, the table a run loads
\* after N submissions has exactly N rows, in submission order, whose five
\* field values are the submitted ones.
C1_ReloadYieldsSubmitted ==
    /\ pc[1] = "tab1" =>
         /\ Len(df[1].rows) = Len(submitted)
         /\ df[1].rows = SubmittedRows
         /\ df[1].cols = FiveCols
    /\ file.exists => ReadCsv(file).rows = SubmittedRows

C1_Witness ==
    /\ pc[1] = "tab1" /\ act[1] = "view"
    /\ Len(submitted) = 2
    /\ df[1].rows[1].sleep_hours = 59 /\ df[1].rows[1].date = <<2024, 2, 28>>
    /\ df[1].rows[2].study_hours = 25 /\ df[1].rows[2].date = <<2024, 2, 29>>

\* C2 as stated: the persisted row count never goes down, whatever the
\* interleaving of the sessions, and each submission raises it by exactly one.
C2_NeverShrinks ==
    [][/\ NumRows(file') >= NumRows(file)
       /\ \A s \in Sessions : SubmitStep(s) => NumRows(file') = NumRows(file) + 1]_vars

\* the table the run of s holds is what the file holds now
Unraced(s) ==
    /\ pc[s] = "create" => ~file.exists
    /\ (pc[s] = "tab1" /\ act[s] = "submit") => ReadCsv(file).rows = df[s].rows

\* C2 amended: the persisted row count does not go down, and a submission
\* raises it by exactly one, in every step of a run whose table still is the
\* content of the file (no other session wrote the file since the run read it).
C2_NeverShrinksUnraced ==
    [][(\A s \in Sessions : pc'[s] # pc[s] => Unraced(s)) =>
          /\ NumRows(file') >= NumRows(file)
          /\ \A s \in Sessions : SubmitStep(s) => NumRows(file') = NumRows(file) + 1]_vars

C2_Witness ==
    /\ Len(submitted) = 2
    /\ submitted[1].session # submitted[2].session
    /\ Len(submitted[2].base) = 1
    /\ lastWrite = 2
    /\ NumRows(file) = 2

\* C3: when two sessions loaded the same N-row table and each appended one
\* observation and rewrote the file, the file holds the N rows and the last
\* writer's observation only: N+1 rows, not N+2.
C3_LastWriteWins ==
    \A i \in 1..Len(submitted) :
        LET j == Len(submitted) IN
        (/\ i < j
         /\ lastWrite = j
         /\ submitted[i].session # submitted[j].session
         /\ submitted[i].base = submitted[j].base)
        => /\ NumRows(file) = Len(submitted[j].base) + 1
           /\ ReadCsv(file).rows = Append(submitted[j].base, submitted[j].row)

C3_LostUpdate ==
    \E i \in 1..Len(submitted) :
        LET j == Len(submitted) IN
        /\ i < j
        /\ lastWrite = j
        /\ submitted[i].session # submitted[j].session
        /\ submitted[i].base = submitted[j].base
        /\ submitted[i].row # submitted[j].row
        /\ NumRows(file) = Len(submitted[j].base) + 1
        /\ \A k \in 1..NumRows(file) : ParseRow(file.rows[k]) # submitted[i].row

\* C4: a run that finds no file raises no error, holds an empty table with
\* the five columns, and creates the file with that header and no rows.
C4_LoadAbsent ==
    [][\A s \in Sessions :
         /\ (pc[s] = "idle" /\ pc'[s] # "idle" /\ ~file.exists) =>
               /\ pc'[s] = "create"
               /\ err'[s] = "none"
               /\ df'[s].rows = <<>>
               /\ df'[s].cols = FiveCols
         /\ (pc[s] = "create" /\ pc'[s] # "create") =>
               /\ pc'[s] = "tab1"
               /\ err'[s] = "none"
               /\ file'.exists
               /\ file'.cols = FiveCols
               /\ file'.rows = <<>>]_vars

C4_Witness ==
    /\ pc[1] = "tab1" /\ pc[2] = "create"
    /\ df[1].rows = <<>> /\ df[1].cols = FiveCols
    /\ file.exists /\ file.cols = FiveCols /\ NumRows(file) = 0
    /\ lastWrite = 0 /\ submitted = <<>>

\* C5: once the analysis of a run is done, the stress prediction is replaced
\* by the warning when the table (rows appended in this run included) has
\* fewer than 2 rows, and is computed from all the rows otherwise.
C5_StressPrediction ==
    \A s \in Sessions : AfterAnalysis(s) =>
        /\ Len(df[s].rows) < 2 => stressOut[s].kind = "warning"
        /\ Len(df[s].rows) >= 2 =>
              /\ stressOut[s].kind = "pred"
              /\ stressOut[s].n = Len(df[s].rows)
              /\ stressOut[s].value = PredictStress(df[s], ProbeHours)

C5_Witness ==
    /\ pc[1] = "tab3" /\ act[1] = "submit"
    /\ Len(df[1].rows) = 2
    /\ stressOut[1].kind = "pred" /\ stressOut[1].n = 2

\* C6: once the analysis of a run is done, no burnout prediction is reported
\* when all rows get the same label (1 iff sleep < 6 h and stress > 7), and a
\* prediction in {0, 1} is reported when the labels contain both 0 and 1.
C6_BurnoutPrediction ==
    \A s \in Sessions : AfterAnalysis(s) =>
        LET labels == {IF df[s].rows[i].sleep_hours < 60 /\ df[s].rows[i].stress_level > 7
                         THEN 1 ELSE 0 : i \in 1..Len(df[s].rows)}
        IN /\ Cardinality(labels) <= 1 => burnoutOut[s].kind = "none"
           /\ labels = {0, 1} => burnoutOut[s].kind = "risk" /\ burnoutOut[s].risk \in {0, 1}

C6_Witness ==
    /\ pc[1] = "tab3"
    /\ Len(df[1].risk) = Len(df[1].rows)
    /\ \E i, j \in 1..Len(df[1].rows) : df[1].risk[i] = 0 /\ df[1].risk[j] = 1
    /\ burnoutOut[1].kind = "risk" /\ burnoutOut[1].risk = 1

\* C7: every row's training label is 1 exactly when sleep < 6 h and
\* stress > 7, both strict: sleep = 6 with stress = 8, and sleep = 5 with
\* stress = 7, are labelled 0.
C7_LabelRule ==
    \A s \in Sessions : HasCol(df[s], RiskCol) =>
        /\ Len(df[s].risk) = Len(df[s].rows)
        /\ \A i \in 1..Len(df[s].rows) :
             LET r == df[s].rows[i] IN
             /\ df[s].risk[i] \in {0, 1}
             /\ df[s].risk[i] = 1 <=> (r.sleep_hours < 60 /\ r.stress_level > 7)
             /\ (r.sleep_hours = 60 /\ r.stress_level = 8) => df[s].risk[i] = 0
             /\ (r.sleep_hours = 50 /\ r.stress_level = 7) => df[s].risk[i] = 0

C7_Witness ==
    /\ HasCol(df[1], RiskCol)
    /\ \E i, j \in 1..Len(df[1].rows) :
         /\ df[1].rows[i].sleep_hours = 60 /\ df[1].rows[i].stress_level = 8
         /\ df[1].risk[i] = 0
         /\ df[1].rows[j].sleep_hours = 59 /\ df[1].rows[j].stress_level = 8
         /\ df[1].risk[j] = 1

\* C8: for every days_left >= 1 the plan's four day ranges are non-empty,
\* consecutive, cover days 1..days_left, the first three holding
\* days_left \div 4 days each; for 20 days they are 1-5, 6-10, 11-15, 16-20.
C8_PlanCoversDays ==
    \A s \in Sessions : planOut[s].shown =>
        LET r == planOut[s].ranges
            d == planOut[s].days
        IN /\ Len(r) = 4
           /\ \A k \in 1..4 : r[k][1] <= r[k][2]
           /\ r[1][1] = 1 /\ r[4][2] = d
           /\ \A k \in 1..3 : r[k + 1][1] = r[k][2] + 1
           /\ \A k \in 1..3 : r[k][2] - r[k][1] + 1 = d \div 4
           /\ d = 20 => r = << <<1, 5>>, <<6, 10>>, <<11, 15>>, <<16, 20>> >>

\* C9: a run in which Generate PDF was pressed ends without an error and
\* offers a saved one-page document with the title, the entry count (the
\* number of rows of the table) and the chart.
C9_ExportCompletes ==
    \A s \in Sessions : (pc[s] = "done" /\ act[s] = "pdf") =>
        /\ err[s] = "none"
        /\ pdfOut[s].drawn = <<"title", "count", "chart">>
        /\ pdfOut[s].count = Len(df[s].rows)
        /\ pdfOut[s].saved
        /\ pdfOut[s].offered

\* C10: the persisted file always has exactly the five observation columns;
\* the burnout_risk column of the in-memory table is never written.
C10_FiveColumns ==
    file.exists =>
        /\ file.cols = FiveCols
        /\ file.risk = <<>>
        /\ ~HasCol(file, RiskCol)

C10_Witness ==
    /\ pc[1] = "tab3" /\ act[1] = "submit"
    /\ HasCol(df[1], RiskCol) /\ Len(df[1].risk) = 2
    /\ lastWrite = 2
    /\ file.cols = FiveCols /\ NumRows(file) = 2
====
